---------------------------- MODULE Spec2Model ----------------------------
(***************************************************************************)
(* HTTP Basic authentication guard of the basic-auth NestJS tutorial.      *)
(*                                                                         *)
(* The model covers BasicAuthGuard.canActivate                             *)
(* (src/src/guards/basic-auth.guard.ts), the client-side construction of   *)
(* the Authorization header described in the README (src/unnamed/part_000) *)
(* and the two routes of AppController (src/unnamed/part_001).             *)
(*                                                                         *)
(* A JavaScript string is a sequence of one-character strings, so that     *)
(* split, Base64 encoding and Base64 decoding are computed character by    *)
(* character, as the runtime computes them.                                *)
(***************************************************************************)
EXTENDS Integers, Sequences, FiniteSets, TLC

(***************************************************************************)
(* Characters and octets                                                   *)
(***************************************************************************)

\* The printable US-ASCII characters, in code order: Printable[i] has code
\* 31 + i.  The grave accent (code 96) is written by its code point.
Printable ==
  <<" ","!","\"","#","$","%","&","'","(",")","*","+",",","-",".","/",
    "0","1","2","3","4","5","6","7","8","9",":",";","<","=",">","?",
    "@","A","B","C","D","E","F","G","H","I","J","K","L","M","N","O",
    "P","Q","R","S","T","U","V","W","X","Y","Z","[","\\","]","^","_",
    "U+0060","a","b","c","d","e","f","g","h","i","j","k","l","m","n","o",
    "p","q","r","s","t","u","v","w","x","y","z","{","|","}","~">>

\* The Base64 alphabet "+/" of README step 3: B64Alphabet[i] encodes the value i - 1.
B64Alphabet ==
  <<"A","B","C","D","E","F","G","H","I","J","K","L","M","N","O","P",
    "Q","R","S","T","U","V","W","X","Y","Z","a","b","c","d","e","f",
    "g","h","i","j","k","l","m","n","o","p","q","r","s","t","u","v",
    "w","x","y","z","0","1","2","3","4","5","6","7","8","9","+","/">>

\* The character U+FFFD that UTF-8 decoding puts in place of an ill-formed
\* sequence of octets.
ReplacementChar == "U+FFFD"

\* The code of each printable character.
CharCodes ==
  [c \in {Printable[i] : i \in 1..Len(Printable)} |->
     31 + (CHOOSE i \in 1..Len(Printable) : Printable[i] = c)]

\* The octet of a character (README step 2: an encoding compatible with
\* US-ASCII).  The user names and passwords of the model are printable ASCII.
charCode(c) == CharCodes[c]

\* text -> octets (README step 2).
encodeOctets(s) == [i \in 1..Len(s) |-> charCode(s[i])]

HexDigits ==
  <<"0","1","2","3","4","5","6","7","8","9","A","B","C","D","E","F">>

\* The four hexadecimal digits of a UTF-16 code unit.
hex4(u) ==
  LET digit(d) == HexDigits[((u \div d) % 16) + 1]
  IN  digit(4096) \o digit(256) \o digit(16) \o digit(1)

\* One UTF-16 code unit of a JavaScript string: a printable ASCII character
\* is itself, any other unit is written by its code, "U+" and four
\* hexadecimal digits.
fromCharCode(u) ==
  IF u \in 32..126 THEN Printable[u - 31] ELSE "U+" \o hex4(u)

\* The code units of a code point: one unit up to U+FFFF, a surrogate pair
\* above.
codeUnits(cp) ==
  IF cp < 65536 THEN <<fromCharCode(cp)>>
  ELSE <<fromCharCode(55296 + ((cp - 65536) \div 1024)),
         fromCharCode(56320 + ((cp - 65536) % 1024))>>

\* The number of continuation octets a lead octet of UTF-8 asks for: 0 for
\* an ASCII octet, -1 for an octet that can lead no sequence.
continuations(b) ==
  IF b < 128 THEN 0
  ELSE IF b \in 194..223 THEN 1
  ELSE IF b \in 224..239 THEN 2
  ELSE IF b \in 240..244 THEN 3
  ELSE -1

\* The octets allowed as the k-th continuation after the lead octet b: the
\* first one is narrowed after E0, ED, F0 and F4 (no overlong form, no
\* surrogate, nothing above U+10FFFF).
continuationRange(b, k) ==
  IF k > 1 THEN 128..191
  ELSE IF b = 224 THEN 160..191
  ELSE IF b = 237 THEN 128..159
  ELSE IF b = 240 THEN 144..191
  ELSE IF b = 244 THEN 128..143
  ELSE 128..191

\* octets -> text: Buffer.prototype.toString() with the default 'utf8'.  A
\* well-formed sequence gives its code point; an octet that can lead no
\* sequence, or a lead octet with the allowed continuations that follow it
\* when they are too few, gives one U+FFFD, and decoding goes on at the next
\* octet.
RECURSIVE toString(_)
toString(bytes) ==
  IF Len(bytes) = 0 THEN <<>>
  ELSE
    LET n == Len(bytes)
        b == bytes[1]
        need == continuations(b)
        \* how many of the octets after b are allowed continuations, up to need
        good == Cardinality({k \in 1..need :
                  \A j \in 1..k :
                    j + 1 <= n /\ bytes[j + 1] \in continuationRange(b, j)})
        cp == IF need = 1 THEN (b - 192) * 64 + (bytes[2] - 128)
              ELSE IF need = 2 THEN
                (b - 224) * 4096 + (bytes[2] - 128) * 64 + (bytes[3] - 128)
              ELSE
                (b - 240) * 262144 + (bytes[2] - 128) * 4096
                  + (bytes[3] - 128) * 64 + (bytes[4] - 128)
    IN  IF need = 0 THEN <<fromCharCode(b)>> \o toString(SubSeq(bytes, 2, n))
        ELSE IF need = -1 THEN
          <<ReplacementChar>> \o toString(SubSeq(bytes, 2, n))
        ELSE IF good = need THEN
          codeUnits(cp) \o toString(SubSeq(bytes, need + 2, n))
        ELSE <<ReplacementChar>> \o toString(SubSeq(bytes, good + 2, n))

(***************************************************************************)
(* Base64                                                                  *)
(***************************************************************************)

\* Client side, README step 3: standard Base64 with "=" padding.  Each group
\* of three octets gives four characters; a last group of one or two octets
\* is filled with zero bits and written with "==" or "=".
base64Encode(bytes) ==
  LET n == Len(bytes)
      octet(i) == IF i <= n THEN bytes[i] ELSE 0
      ch(v) == B64Alphabet[v + 1]
      char(k) ==
        LET g == 3 * ((k - 1) \div 4)
            b1 == octet(g + 1)
            b2 == octet(g + 2)
            b3 == octet(g + 3)
        IN  CASE (k - 1) % 4 = 0 -> ch(b1 \div 4)
              [] (k - 1) % 4 = 1 -> ch((b1 % 4) * 16 + b2 \div 16)
              [] (k - 1) % 4 = 2 ->
                   IF g + 2 > n THEN "=" ELSE ch((b2 % 16) * 4 + b3 \div 64)
              [] (k - 1) % 4 = 3 ->
                   IF g + 3 > n THEN "=" ELSE ch(b3 % 64)
  IN  [k \in 1..(4 * ((n + 2) \div 3)) |-> char(k)]

\* The value of each character of the standard alphabet.
B64Values ==
  [c \in {B64Alphabet[i] : i \in 1..Len(B64Alphabet)} |->
     (CHOOSE i \in 1..Len(B64Alphabet) : B64Alphabet[i] = c) - 1]

\* The value of a Base64 character as Buffer.from(_, 'base64') reads it: the
\* standard alphabet, and the URL-safe "-" and "_" as 62 and 63; -1 for any
\* other character.
unbase64(c) ==
  IF c \in DOMAIN B64Values THEN B64Values[c]
  ELSE IF c = "-" THEN 62
  ELSE IF c = "_" THEN 63
  ELSE -1

\* The 6-bit values Buffer.from(_, 'base64') takes from a token: it never
\* rejects a token; a character outside the alphabet is skipped and the first
\* "=" ends the decoding.
RECURSIVE sextets(_)
sextets(token) ==
  IF token = <<>> THEN <<>>
  ELSE IF Head(token) = "=" THEN <<>>
  ELSE LET v == unbase64(Head(token))
       IN  IF v < 0 THEN sextets(Tail(token))
           ELSE <<v>> \o sextets(Tail(token))

\* 6-bit values -> octets: four values give three octets; a last group of
\* three gives two octets, of two gives one, of one gives none.
RECURSIVE octets(_)
octets(v) ==
  LET n == Len(v)
  IN  IF n < 2 THEN <<>>
      ELSE IF n = 2 THEN << v[1] * 4 + v[2] \div 16 >>
      ELSE IF n = 3 THEN
        << v[1] * 4 + v[2] \div 16, (v[2] % 16) * 16 + v[3] \div 4 >>
      ELSE
        << v[1] * 4 + v[2] \div 16,
           (v[2] % 16) * 16 + v[3] \div 4,
           (v[3] % 4) * 64 + v[4] >> \o octets(SubSeq(v, 5, n))

\* Buffer.from(token, 'base64') for a string token.
base64Decode(token) == octets(sextets(token))

(***************************************************************************)
(* String.prototype.split and destructuring                                *)
(***************************************************************************)

\* The value undefined: a missing header, an array index past the end.  It
\* is a one-element sequence whose element is no character, so it differs
\* from every string.
Undefined == <<"undefined">>

\* s.split(sep) for a one-character separator: every piece between two
\* separators, the empty pieces included; "" gives [""].
RECURSIVE split(_, _)
split(s, sep) ==
  IF \E i \in 1..Len(s) : s[i] = sep
  THEN LET i == CHOOSE k \in 1..Len(s) :
                  s[k] = sep /\ \A j \in 1..(k - 1) : s[j] # sep
       IN  <<SubSeq(s, 1, i - 1)>> \o split(SubSeq(s, i + 1, Len(s)), sep)
  ELSE <<s>>

\* parts[i] with the zero-based index of JavaScript; undefined past the end.
at(parts, i) == IF i < Len(parts) THEN parts[i + 1] ELSE Undefined

(***************************************************************************)
(* BasicAuthGuard.canActivate                                              *)
(***************************************************************************)

rootName == <<"a","d","m","i","n">>

rootPassword == <<"a","d","m","i","n"," ","p","a","s","s","w","o","r","d">>

headerName == <<"W","W","W","-","A","u","t","h","e","n","t","i","c","a","t","e">>

authorizationScheme == <<"B","a","s","i","c">>

\* new UnauthorizedException(message): an HttpException of status 401.
\* Without an argument its message is "Unauthorized".
UnauthorizedException(message) ==
  [name |-> "UnauthorizedException", status |-> 401, message |-> message]

\* The TypeError Buffer.from throws when its first argument is undefined.  It
\* is no HttpException: left uncaught it would be answered with status 500.
BufferTypeError ==
  [name |-> "TypeError", status |-> 500,
   message |-> "The first argument must be of type string or an instance of Buffer, ArrayBuffer, or Array or an Array-like Object. Received undefined"]

\* No error: the field of a completion that threw nothing.
NoError == [name |-> "none", status |-> 0, message |-> ""]

\* response.setHeader(name, value): the value replaces an earlier one.
setHeader(headers, name, value) ==
  {h \in headers : h[1] # name} \cup {<<name, value>>}

\* Mutant of challenge: the statement of line 23 left out.
challengeForgotten(headers) == headers

\* response.setHeader(headerName, authorizationScheme), line 23.
challenge(headers) == setHeader(headers, headerName, authorizationScheme)

\* Mutant of isMissing: authorization === undefined in place of !authorization.
isMissingStrict(authorization) == authorization = Undefined

\* !authorization, line 25: undefined and the empty string are falsy.
isMissing(authorization) == authorization = Undefined \/ authorization = <<>>

\* Mutant of schemeMismatch: the scheme compared without regard to case.
schemeMismatchIgnoringCase(scheme) ==
  scheme \notin { authorizationScheme, <<"b","a","s","i","c">>,
                  <<"B","A","S","I","C">> }

\* scheme !== authorizationScheme, line 32.
schemeMismatch(scheme) == scheme # authorizationScheme

\* rootName !== name || rootPassword !== password, line 40.
badCredentials(name, password) == rootName # name \/ rootPassword # password

\* How the try block ends: by `return true` or by a throw.  trace lists the
\* statements of interest in the order they ran; name and password are the
\* destructured locals (Undefined while not yet assigned).
Completion(kind, error, headers, trace, name, password) ==
  [completion |-> kind, error |-> error, headers |-> headers,
   trace |-> trace, name |-> name, password |-> password]

\* The try block, lines 12-44.
tryBlock(request, headers) ==
  LET authorization == request.headers.authorization
      headers1 == challenge(headers)
      words == split(authorization, " ")
      scheme == at(words, 0)
      authorizationParameters == at(words, 1)
      fields == split(toString(base64Decode(authorizationParameters)), ":")
      name == at(fields, 0)
      password == at(fields, 1)
  IN  IF isMissing(authorization) THEN
        Completion("throw", UnauthorizedException("Unauthorized"), headers1,
                   <<"setHeader", "throw:26">>, Undefined, Undefined)
      ELSE IF schemeMismatch(scheme) THEN
        Completion("throw", UnauthorizedException("Unauthorized"), headers1,
                   <<"setHeader", "split", "throw:33">>, Undefined, Undefined)
      ELSE IF authorizationParameters = Undefined THEN
        Completion("throw", BufferTypeError, headers1,
                   <<"setHeader", "split", "decode", "throw:36">>,
                   Undefined, Undefined)
      ELSE IF badCredentials(name, password) THEN
        Completion("throw", UnauthorizedException("Unauthorized"), headers1,
                   <<"setHeader", "split", "decode", "compare", "throw:41">>,
                   name, password)
      ELSE
        Completion("return", NoError, headers1,
                   <<"setHeader", "split", "decode", "compare", "return:44">>,
                   name, password)

\* Mutant of catchClause: the catch clause of the README's variant of the
\* guard, throw new HttpException(error, HttpStatus.BAD_REQUEST).
catchClauseBadRequest(error) ==
  [name |-> "HttpException", status |-> 400, message |-> error.message]

\* catch (error) { throw new UnauthorizedException(error.message) }, line 46.
catchClause(error) == UnauthorizedException(error.message)

\* canActivate, lines 10-48: whatever the try block throws goes through the
\* catch clause.
canActivate(request, headers) ==
  LET t == tryBlock(request, headers)
  IN  IF t.completion = "throw"
      THEN [t EXCEPT !.error = catchClause(t.error),
                     !.trace = Append(t.trace, "catch")]
      ELSE t

(***************************************************************************)
(* The client side of the README                                           *)
(***************************************************************************)

\* README steps 1-4: username ":" password, to octets, to Base64, after
\* "Basic ".
clientToken(username, password) ==
  base64Encode(encodeOctets(username \o <<":">> \o password))

clientHeader(username, password) ==
  authorizationScheme \o <<" ">> \o clientToken(username, password)

(***************************************************************************)
(* Requests                                                                *)
(***************************************************************************)

\* Number of requests in flight at once.
MaxRequests == 2

Requests == 1..MaxRequests

Usernames == { rootName, <<"A","l","a","d","d","i","n">> }

Passwords ==
  { rootPassword,
    <<"o","p","e","n"," ","s","e","s","a","m","e">>,
    <<"p","a",":","s","s">>,
    rootPassword \o <<":","x">> }

\* The token of the expected identity.
RootToken == clientToken(rootName, rootPassword)

\* Tokens that are not what a client builds.  The first four are no
\* well-formed Base64: the padding stripped, a "!" put in, no alphabet
\* character at all, a length that is no multiple of four.  The next two are
\* well-formed Base64 of a text that is not username ":" password.  The last
\* two decode to octets outside ASCII: C3 A9 ":" "x", the two-octet sequence
\* of U+00E9 as the name; E2 82 ":" "A", a three-octet sequence cut short.
StrangeTokens ==
  { SelectSeq(RootToken, LAMBDA c : c # "="),
    SubSeq(RootToken, 1, 2) \o <<"!">> \o SubSeq(RootToken, 3, Len(RootToken)),
    <<"!","!","!","!">>,
    <<"a","b","c">>,
    <<"a","b","c","d">>,
    base64Encode(encodeOctets(rootName)),
    base64Encode(<<195, 169, 58, 120>>),
    base64Encode(<<226, 130, 58, 65>>) }

OtherSchemes ==
  { <<"b","a","s","i","c">>, <<"B","A","S","I","C">>,
    <<"D","i","g","e","s","t">> }

\* The values of request.headers.authorization the model sends to GET /admin:
\* no header and the empty header; what a client builds; another scheme
\* before the token of the expected identity, and "Digest abcd"; "Basic"
\* without a token, with an empty one, and with two spaces before the token;
\* "Basic" before a strange token.
Headers ==
  { Undefined, <<>> }
    \cup { clientHeader(u, p) : u \in Usernames, p \in Passwords }
    \cup { s \o <<" ">> \o RootToken : s \in OtherSchemes }
    \cup { <<"D","i","g","e","s","t"," ","a","b","c","d">> }
    \cup { authorizationScheme,
           authorizationScheme \o <<" ">>,
           authorizationScheme \o <<" "," ">> \o RootToken }
    \cup { authorizationScheme \o <<" ">> \o t : t \in StrangeTokens }

\* The values of the header the model sends to GET /, which reads none.
HelloHeaders == { Undefined, clientHeader(rootName, rootPassword) }

Routes == { "/", "/admin" }

\* The Authorization headers sent to a route.
headersFor(path) == IF path = "/admin" THEN Headers ELSE HelloHeaders

\* The result slot of a request the guard has not seen.
NoResult ==
  Completion("none", NoError, {}, <<>>, Undefined, Undefined)

NoRequest == [headers |-> [authorization |-> Undefined]]

(***************************************************************************)
(* The request pipeline of AppController                                   *)
(***************************************************************************)

VARIABLES
  stage,       \* where each request is in the pipeline
  route,       \* the path each request asks for
  request,     \* each request, as the guard reads it
  response,    \* the headers set on each request's response
  result,      \* how canActivate ended for each request
  guardCalls,  \* how many times canActivate ran for each request
  handlerCalls \* how many times a route handler ran for each request

vars == <<stage, route, request, response, result, guardCalls, handlerCalls>>

Init ==
  /\ stage = [r \in Requests |-> "idle"]
  /\ route = [r \in Requests |-> "none"]
  /\ request = [r \in Requests |-> NoRequest]
  /\ response = [r \in Requests |-> {}]
  /\ result = [r \in Requests |-> NoResult]
  /\ guardCalls = [r \in Requests |-> 0]
  /\ handlerCalls = [r \in Requests |-> 0]

\* An HTTP GET arrives, with its own request and response objects.
Receive(r) ==
  /\ stage[r] = "idle"
  /\ \E path \in Routes :
     \E authorization \in headersFor(path) :
       /\ route' = [route EXCEPT ![r] = path]
       /\ request' = [request EXCEPT
                        ![r] = [headers |-> [authorization |-> authorization]]]
  /\ stage' = [stage EXCEPT ![r] = "received"]
  /\ response' = [response EXCEPT ![r] = {}]
  /\ result' = [result EXCEPT ![r] = NoResult]
  /\ guardCalls' = [guardCalls EXCEPT ![r] = 0]
  /\ handlerCalls' = [handlerCalls EXCEPT ![r] = 0]

\* Mutant of Guard: the guard keeps the request it is working on in a field of
\* the one guard instance, so that it may read another request in flight.
GuardSharedField(r) ==
  /\ stage[r] = "received"
  /\ route[r] = "/admin"
  /\ \E q \in Requests :
       /\ stage[q] # "idle"
       /\ LET res == canActivate(request[q], response[r])
          IN  /\ result' = [result EXCEPT ![r] = res]
              /\ response' = [response EXCEPT ![r] = res.headers]
              /\ stage' = [stage EXCEPT
                             ![r] = IF res.completion = "return"
                                    THEN "allowed" ELSE "denied"]
  /\ guardCalls' = [guardCalls EXCEPT ![r] = @ + 1]
  /\ UNCHANGED <<route, request, handlerCalls>>

\* @UseGuards(BasicAuthGuard) on GET /admin: canActivate runs before the
\* handler; a throw ends the request with the status of the exception.
Guard(r) ==
  /\ stage[r] = "received"
  /\ route[r] = "/admin"
  /\ LET res == canActivate(request[r], response[r])
     IN  /\ result' = [result EXCEPT ![r] = res]
         /\ response' = [response EXCEPT ![r] = res.headers]
         /\ stage' = [stage EXCEPT
                        ![r] = IF res.completion = "return"
                               THEN "allowed" ELSE "denied"]
  /\ guardCalls' = [guardCalls EXCEPT ![r] = @ + 1]
  /\ UNCHANGED <<route, request, handlerCalls>>

\* Mutant of root: the handler without @UseGuards, as in the README's first
\* version of the controller.
rootUnguarded(r) ==
  /\ route[r] = "/admin"
  /\ stage[r] \in {"received", "allowed"}
  /\ stage' = [stage EXCEPT ![r] = "rendered"]
  /\ handlerCalls' = [handlerCalls EXCEPT ![r] = @ + 1]
  /\ UNCHANGED <<route, request, response, result, guardCalls>>

\* AppController.root: renders admin/index once the guard has let the
\* request through.
root(r) ==
  /\ route[r] = "/admin"
  /\ stage[r] = "allowed"
  /\ stage' = [stage EXCEPT ![r] = "rendered"]
  /\ handlerCalls' = [handlerCalls EXCEPT ![r] = @ + 1]
  /\ UNCHANGED <<route, request, response, result, guardCalls>>

\* AppController.getHello: GET / has no guard.
getHello(r) ==
  /\ route[r] = "/"
  /\ stage[r] = "received"
  /\ stage' = [stage EXCEPT ![r] = "served"]
  /\ handlerCalls' = [handlerCalls EXCEPT ![r] = @ + 1]
  /\ UNCHANGED <<route, request, response, result, guardCalls>>

\* The response has been sent; the request and response objects are dropped.
Close(r) ==
  /\ stage[r] \in {"denied", "rendered", "served"}
  /\ stage' = [stage EXCEPT ![r] = "idle"]
  /\ route' = [route EXCEPT ![r] = "none"]
  /\ request' = [request EXCEPT ![r] = NoRequest]
  /\ response' = [response EXCEPT ![r] = {}]
  /\ result' = [result EXCEPT ![r] = NoResult]
  /\ guardCalls' = [guardCalls EXCEPT ![r] = 0]
  /\ handlerCalls' = [handlerCalls EXCEPT ![r] = 0]

Next ==
  \E r \in Requests :
    \/ Receive(r)
    \/ Guard(r)
    \/ root(r)
    \/ getHello(r)
    \/ Close(r)

Spec == Init /\ [][Next]_vars

(***************************************************************************)
(* Properties                                                              *)
(***************************************************************************)

\* The guard has run for request r and r has not been dropped yet.
guarded(r) == stage[r] \in {"allowed", "denied", "rendered"}

allowed(r) == guarded(r) /\ result[r].completion = "return"

denied(r) == stage[r] = "denied"

authorizationOf(r) == request[r].headers.authorization

\* The response of r carries WWW-Authenticate with the value Basic, and no
\* other value.
challenged(r) ==
  {h \in response[r] : h[1] = headerName}
    = {<<headerName, authorizationScheme>>}

inTrace(r, label) == \E i \in 1..Len(result[r].trace) : result[r].trace[i] = label

ThrowLabels == {"throw:26", "throw:33", "throw:36", "throw:41"}

\* The text before the first space of s (all of s when it has no space).
beforeFirstSpace(s) ==
  LET spaces == {i \in 1..Len(s) : s[i] = " "}
      first == IF spaces = {} THEN Len(s) + 1
               ELSE CHOOSE i \in spaces : \A j \in spaces : i <= j
  IN  SubSeq(s, 1, first - 1)

\* Standard Base64 as RFC 4648 writes it: a multiple of four characters of
\* the alphabet, the last one or two of which may be "=".
wellFormedBase64(t) ==
  LET n == Len(t)
      pad == IF n >= 2 /\ t[n] = "=" /\ t[n - 1] = "=" THEN 2
             ELSE IF n >= 1 /\ t[n] = "=" THEN 1 ELSE 0
  IN  /\ n % 4 = 0
      /\ \A i \in 1..(n - pad) :
           \E k \in 1..Len(B64Alphabet) : B64Alphabet[k] = t[i]

\* s is "Basic " followed by a token without a space.
isBasicWithToken(s) ==
  /\ Len(s) > Len(authorizationScheme) + 1
  /\ SubSeq(s, 1, Len(authorizationScheme) + 1) = authorizationScheme \o <<" ">>
  /\ \A i \in (Len(authorizationScheme) + 2)..Len(s) : s[i] # " "

tokenOf(s) == SubSeq(s, Len(authorizationScheme) + 2, Len(s))

\* C1: a request whose header a client built from (username, password) is
\* allowed if and only if username is the expected username and password,
\* the whole text after the first colon, is the expected password.
C1_AllowedIffExpectedCredentials ==
  \A r \in Requests : \A u \in Usernames : \A p \in Passwords :
    (guarded(r) /\ authorizationOf(r) = clientHeader(u, p))
      => (allowed(r) <=> (u = rootName /\ p = rootPassword))

\* C2: after canActivate, on the allow path and on every deny path, the
\* response carries WWW-Authenticate: Basic, and the header was set before
\* any throw.
C2_ChallengeOnEveryPath ==
  \A r \in Requests :
    guarded(r) =>
      /\ challenged(r)
      /\ \A i \in 1..Len(result[r].trace) :
           result[r].trace[i] \in ThrowLabels =>
             \E j \in 1..(i - 1) : result[r].trace[j] = "setHeader"

\* C2 witness: one request allowed and one denied for want of a header, each
\* with the challenge on its response.
C2_Witness ==
  \E r, q \in Requests :
    /\ allowed(r) /\ challenged(r)
    /\ denied(q) /\ challenged(q) /\ authorizationOf(q) = Undefined

\* C3: every way canActivate fails to allow a request is an
\* UnauthorizedException of status 401, also when the try block threw
\* something else; it never ends otherwise than by returning true or by
\* that throw.
C3_EveryDenialIsUnauthorized ==
  \A r \in Requests :
    guardCalls[r] > 0 =>
      \/ /\ result[r].completion = "return"
         /\ stage[r] \in {"allowed", "rendered"}
      \/ /\ result[r].completion = "throw"
         /\ stage[r] = "denied"
         /\ result[r].error.name = "UnauthorizedException"
         /\ result[r].error.status = 401

\* C3 witness: a header with a scheme and no token makes Buffer.from throw a
\* TypeError, and the request is denied with status 401.
C3_Witness ==
  \E r \in Requests :
    /\ denied(r)
    /\ authorizationOf(r) = authorizationScheme
    /\ inTrace(r, "throw:36")
    /\ result[r].error.status = 401

\* C4: any two denied requests give the client the same outcome: the same
\* status and message of the exception, the same response headers.
C4_DenialsIndistinguishable ==
  \A r, q \in Requests :
    (denied(r) /\ denied(q)) =>
      /\ result[r].error = result[q].error
      /\ response[r] = response[q]

\* C5: for a header a client built from (username, password), the guard
\* recovers exactly that username and that password.
C5_RoundTrip ==
  \A r \in Requests : \A u \in Usernames : \A p \in Passwords :
    (guarded(r) /\ authorizationOf(r) = clientHeader(u, p))
      => (result[r].name = u /\ result[r].password = p)

\* C6: a request without an Authorization header (absent or empty) is denied
\* at the missing-header check, its response carries the challenge, and the
\* decoding and the comparison are not reached.
C6_MissingHeaderDenied ==
  \A r \in Requests :
    (guarded(r) /\ authorizationOf(r) \in {Undefined, <<>>}) =>
      /\ denied(r)
      /\ challenged(r)
      /\ inTrace(r, "throw:26")
      /\ ~inTrace(r, "decode")
      /\ ~inTrace(r, "compare")

\* C6 witness: a denied request with no header and one with an empty header.
C6_Witness ==
  \E r, q \in Requests :
    /\ denied(r) /\ authorizationOf(r) = Undefined
    /\ denied(q) /\ authorizationOf(q) = <<>>

\* C7: a header whose text before the first space is not exactly "Basic" is
\* denied, whatever the token.
C7_OtherSchemeDenied ==
  \A r \in Requests :
    (/\ guarded(r)
     /\ authorizationOf(r) \notin {Undefined, <<>>}
     /\ beforeFirstSpace(authorizationOf(r)) # authorizationScheme)
      => denied(r)

\* C7 witness: "basic" and "BASIC" before the token of the expected identity,
\* both denied.
C7_Witness ==
  \E r, q \in Requests :
    /\ denied(r)
    /\ authorizationOf(r) = <<"b","a","s","i","c"," ">> \o RootToken
    /\ denied(q)
    /\ authorizationOf(q) = <<"B","A","S","I","C"," ">> \o RootToken

\* C8: a header "Basic <token>" whose token is no well-formed Base64 is
\* denied.
C8_MalformedTokenDenied ==
  \A r \in Requests :
    (/\ guarded(r)
     /\ isBasicWithToken(authorizationOf(r))
     /\ ~wellFormedBase64(tokenOf(authorizationOf(r))))
      => denied(r)

\* C9: the handler of GET /admin runs only for a request canActivate has
\* allowed, never for a request it denied; GET / is served without the guard.
C9_HandlerOnlyAfterAllow ==
  \A r \in Requests :
    /\ (route[r] = "/admin" /\ handlerCalls[r] > 0) =>
         (guardCalls[r] = 1 /\ result[r].completion = "return")
    /\ denied(r) => handlerCalls[r] = 0
    /\ (route[r] = "/" /\ stage[r] # "idle") => guardCalls[r] = 0

\* C9 witness: one request rendered after the guard allowed it, while another
\* was denied and reached no handler.
C9_Witness ==
  \E r, q \in Requests :
    /\ stage[r] = "rendered" /\ guardCalls[r] = 1 /\ handlerCalls[r] = 1
    /\ denied(q) /\ handlerCalls[q] = 0

\* Two requests with the same header have the same outcome of the guard and
\* the same response headers, whatever else is in flight.
SameRequestSameOutcome ==
  \A r, q \in Requests :
    (guarded(r) /\ guarded(q) /\ request[r] = request[q]) =>
      (result[r].completion = result[q].completion
       /\ result[r].error = result[q].error
       /\ response[r] = response[q])

\* A step leaves alone the request, the response and the guard's outcome of
\* every request that does not itself move.
OthersUntouched ==
  \A q \in Requests :
    stage'[q] = stage[q] =>
      (request'[q] = request[q] /\ response'[q] = response[q]
       /\ result'[q] = result[q])

\* C10: under any interleaving, the guard's decision for a request and the
\* header it sets depend on that request's Authorization header only, and an
\* invocation touches no other request.
C10_DecisionDependsOnOwnRequestOnly ==
  [](SameRequestSameOutcome) /\ [][OthersUntouched]_vars

\* C10 witness: the same header in two requests in flight, both allowed, one
\* already rendered.
C10_Witness ==
  \E r, q \in Requests :
    /\ r # q
    /\ request[r] = request[q]
    /\ stage[r] = "rendered"
    /\ stage[q] = "allowed"

=============================================================================
